---- MODULE Spec2Model ----
(***************************************************************************)
(* Model of qiniustorage/backends.py: the QiniuStorage adapter (and its    *)
(* QiniuMediaStorage / QiniuStaticStorage variants) and the QiniuFile      *)
(* buffered handle, running against a remote bucket.                       *)
(*                                                                         *)
(* Text (names, keys, modes, URLs) is a sequence of one-character strings; *)
(* bytes (file content) are sequences of integers.                         *)
(***************************************************************************)
EXTENDS Integers, Sequences, FiniteSets, TLC

VARIABLES
    location,          \* QiniuStorage.location of the adapter in use
    filename_prefix,   \* self.filename_prefix
    bucket,            \* the remote bucket: key -> [data, putTime]
    handles,           \* the QiniuFile objects, by handle id
    last               \* the last call made on the adapter or a handle:
                       \* its arguments, its outcome, the remote calls it issued

vars == <<location, filename_prefix, bucket, handles, last>>

----------------------------------------------------------------------------
(* Bounds of the model *)

\* longest buffer a handle may grow to by write()
MaxBuf == 1
\* most objects the bucket holds while names are operated on
MaxObjects == 3
\* most objects the bucket holds while file handles are operated on
MaxFileObjects == 1
\* most objects the bucket holds while two handles share a name
MaxSharedObjects == 2
\* entries per page of the remote listing
PageLimit == 1

----------------------------------------------------------------------------
(* Text helpers *)

Slash == "/"

\* str.lstrip('/')
RECURSIVE LStrip(_)
LStrip(s) ==
    IF s # <<>> /\ Head(s) = Slash THEN LStrip(Tail(s)) ELSE s

\* str.endswith('/')
EndsWithSlash(s) == s # <<>> /\ s[Len(s)] = Slash

\* str.startswith(p)
StartsWith(s, p) == Len(p) <= Len(s) /\ SubSeq(s, 1, Len(p)) = p

\* s[n:]
DropFirst(s, n) == IF n >= Len(s) THEN <<>> ELSE SubSeq(s, n + 1, Len(s))

\* c in s
HasChar(s, c) == \E i \in DOMAIN s : s[i] = c

\* str.split('/'): the segments between the slashes, empty ones included
RECURSIVE SplitFrom(_, _, _)
SplitFrom(s, i, cur) ==
    IF i > Len(s) THEN <<cur>>
    ELSE IF s[i] = Slash THEN <<cur>> \o SplitFrom(s, i + 1, <<>>)
    ELSE SplitFrom(s, i + 1, Append(cur, s[i]))

Split(s) == SplitFrom(s, 1, <<>>)

\* force_text / force_bytes on the ASCII letters the model uses
Chr(b) == CASE b = 120 -> "x" [] b = 121 -> "y" [] b = 123 -> "{" [] OTHER -> "?"
Ord(c) == CASE c = "x" -> 120 [] c = "y" -> 121 [] c = "{" -> 123 [] OTHER -> 63

force_text(data) == [i \in DOMAIN data |-> Chr(data[i])]
force_bytes(text) == [i \in DOMAIN text |-> Ord(text[i])]

----------------------------------------------------------------------------
(* Inputs *)

Locations == { <<>>, <<"m","e","d","i","a">>, <<"s","t","a","t","i","c">> }
Prefixes  == { <<>>, <<"p","-">> }

\* QINIU_BUCKET_DOMAIN: http://d/
bucket_domain == <<"h","t","t","p",":","/","/","d","/">>

BaseNames == { <<"a">>, <<"/","a">>, <<"s","/","b">>, <<"s","/","c">> }
DirNames  == { <<>>, <<"s">>, <<"s","/">> }
Modes     == { <<"r","b">>, <<"r">>, <<"w","b">>, <<"w">> }

Bytes    == {120, 121}
\* what write() is handed, as bytes
Contents == { <<>>, <<120>>, <<121>> }
Texts    == { force_text(c) : c \in Contents }

HandleIds == {1}
\* the handles that are open on one name at once
SharedHandleIds == {1, 2}

----------------------------------------------------------------------------
(* The remote object-storage service (qiniu SDK calls and the HTTP GET) *)

\* what the service stamps on an upload (units of 100 ns)
PutTimes == {25000010}

NoRet == [none |-> TRUE, key |-> <<>>, fsize |-> 0, putTime |-> 0]
Ret(key, fsize, putTime) ==
    [none |-> FALSE, key |-> key, fsize |-> fsize, putTime |-> putTime]

Call(api, key, data, res) == [api |-> api, key |-> key, data |-> data, res |-> res]

EmptyBucket == [k \in {} |-> [data |-> <<>>, putTime |-> 0]]
Store(b, key, data, t) == (key :> [data |-> data, putTime |-> t]) @@ b
Remove(b, key) == [k \in DOMAIN b \ {key} |-> b[k]]

\* the key an upload policy stores under instead of the requested one
Mangled(key) == <<"~">>

\* put_data(token, key, data): stored as asked, refused, or stored elsewhere
PutOutcomes == {"ok", "none", "mangled"}
ServicePut(b, key, data, out, t) ==
    CASE out = "ok"      -> [bucket |-> Store(b, key, data, t),
                             ret |-> Ret(key, Len(data), t)]
      [] out = "mangled" -> [bucket |-> Store(b, Mangled(key), data, t),
                             ret |-> Ret(Mangled(key), Len(data), t)]
      [] OTHER           -> [bucket |-> b, ret |-> NoRet]

\* bucket_manager.stat(bucket, key): no result for a missing key or a failed call
StatOutcomes(b, key) == IF key \in DOMAIN b THEN {"ok", "none"} ELSE {"none"}
ServiceStat(b, key, out) ==
    IF out = "ok" THEN Ret(key, Len(b[key].data), b[key].putTime) ELSE NoRet

\* bucket_manager.delete(bucket, key): (ret, info.status_code)
DeleteOutcomes(b, key) ==
    IF key \in DOMAIN b
    THEN { [none |-> FALSE, status |-> 200], [none |-> TRUE, status |-> 599] }
    ELSE { [none |-> TRUE, status |-> 612], [none |-> FALSE, status |-> 612] }
ServiceDelete(b, key, out) ==
    IF ~out.none /\ out.status = 200 THEN Remove(b, key) ELSE b

\* the body the domain serves for a missing key
ErrorBody == <<123>>

\* requests.get(url).content: the object's bytes, or the error body
GetOutcomes == {"ok", "neterr"}
UrlKey(u) == DropFirst(u, Len(bucket_domain))
ServiceGet(b, u) ==
    IF UrlKey(u) \in DOMAIN b THEN b[UrlKey(u)].data ELSE ErrorBody

\* the keys under a prefix, in the order the service lists them
Listings(b, prefix) ==
    LET ks == { k \in DOMAIN b : StartsWith(k, prefix) }
        n  == Cardinality(ks)
    IN  { f \in [1..n -> ks] : \A i, j \in 1..n : i # j => f[i] # f[j] }

\* bucket_manager.list(bucket, prefix, marker, limit): one page of the listing
\* after the marker, the marker of the next page, and whether it was the last
ServiceList(listing, marker) ==
    LET upto == IF marker + PageLimit < Len(listing)
                THEN marker + PageLimit ELSE Len(listing)
    IN  [items |-> SubSeq(listing, marker + 1, upto), marker |-> upto,
         eof |-> upto = Len(listing)]

\* faulty variant: a lister that yields the first page only
bucket_lister_first_page(listing, marker) == ServiceList(listing, marker).items

\* utils.bucket_lister: drains the listing page by page, following the marker
\* until the service signals the last page
RECURSIVE bucket_lister(_, _)
bucket_lister(listing, marker) ==
    LET page == ServiceList(listing, marker)
    IN  page.items \o (IF page.eof THEN <<>>
                       ELSE bucket_lister(listing, page.marker))

\* the list calls bucket_lister issues, one per page
RECURSIVE lister_calls(_, _, _)
lister_calls(listing, marker, prefix) ==
    LET page == ServiceList(listing, marker)
    IN  IF page.eof THEN <<Call("list", prefix, <<>>, "eof")>>
        ELSE <<Call("list", prefix, <<>>, "more")>>
                 \o lister_calls(listing, page.marker, prefix)

----------------------------------------------------------------------------
(* QiniuStorage *)

\* _clean_name: force_text of a name that is text already
clean_name(name) == name

\* _normalize_name
normalize_name(name) == LStrip(location \o <<Slash>> \o LStrip(name))

\* _prefix_name
prefix_name(name) == filename_prefix \o name

\* urljoin(base, ref) for a reference without a scheme, a query, or dot or
\* empty segments: a relative ref replaces base's last segment, a ref with
\* one leading slash replaces base's whole path
RECURSIVE UrlDir(_)
UrlDir(base) ==
    IF base = <<>> \/ EndsWithSlash(base) THEN base
    ELSE UrlDir(SubSeq(base, 1, Len(base) - 1))

\* scheme://host of base: what precedes the slash that begins its path
RECURSIVE UrlOriginFrom(_, _, _)
UrlOriginFrom(base, i, slashes) ==
    IF i > Len(base) THEN base
    ELSE IF base[i] = Slash /\ slashes = 2 THEN SubSeq(base, 1, i - 1)
    ELSE UrlOriginFrom(base, i + 1,
                       IF base[i] = Slash THEN slashes + 1 ELSE slashes)

UrlOrigin(base) == UrlOriginFrom(base, 1, 0)

UrlJoin(base, ref) ==
    IF ref = <<>> THEN base
    ELSE IF Head(ref) = Slash THEN UrlOrigin(base) \o ref
    ELSE UrlDir(base) \o ref

\* faulty variant: url joining the name without the filename prefix
url_unprefixed(name) == UrlJoin(bucket_domain, normalize_name(clean_name(name)))

\* url
url(name) == UrlJoin(bucket_domain, prefix_name(normalize_name(clean_name(name))))

\* faulty variant: _put_file without the comparison of the stored key
PutRaisesNoneOnly(ret, name) == ret.none

\* the condition under which _put_file raises QiniuError
PutRaises(ret, name) == ret.none \/ ret.key # name

\* _put_file(name, content): [bucket, raised, calls]
put_file(b, name, content, out, t) ==
    LET r == ServicePut(b, name, content, out, t)
    IN  [bucket |-> r.bucket,
         raised |-> IF PutRaises(r.ret, name) THEN "QiniuError" ELSE "",
         calls  |-> <<Call("put", name, content, out)>>]

\* _read(name): [raised, content, calls]
storage_read(b, name, out) ==
    [raised  |-> IF out = "neterr" THEN "ConnectionError" ELSE "",
     content |-> IF out = "neterr" THEN <<>> ELSE ServiceGet(b, url(name)),
     calls   |-> <<Call("get", UrlKey(url(name)), <<>>, out)>>]

\* faulty variant: delete without the test of status 612
DeleteRaisesNoneOnly(out) == out.none

\* the condition under which delete raises QiniuError
DeleteRaises(out) == out.none \/ out.status = 612

\* the condition under which _file_stat raises QiniuError
StatRaises(ret, silent) == ret.none /\ ~silent

\* _file_stat(name, silent): [raised, ret, calls]
file_stat(b, name, silent, out) ==
    LET key == prefix_name(normalize_name(clean_name(name)))
        ret == ServiceStat(b, key, out)
    IN  [raised |-> IF StatRaises(ret, silent) THEN "QiniuError" ELSE "",
         ret    |-> ret,
         calls  |-> <<Call("stat", key, <<>>, out)>>]

\* faulty variant: exists calling _file_stat without silent=True
exists_loud == FALSE

\* the silent argument exists passes to _file_stat
exists_silent == TRUE

\* faulty variant: _file_stat silent by default
default_silent_on == TRUE

\* the silent argument size and modified_time leave at its default
default_silent == FALSE

\* what subscripting the stat result raises: None has no items
SubscriptRaises(ret) == IF ret.none THEN "TypeError" ELSE ""

\* size(name): [raised, value, calls]
storage_size(b, name, out) ==
    LET s == file_stat(b, name, default_silent, out)
        raised == IF s.raised # "" THEN s.raised ELSE SubscriptRaises(s.ret)
    IN  [raised |-> raised,
         value  |-> IF raised # "" THEN 0 ELSE s.ret.fsize,
         calls  |-> s.calls]

\* the divisor modified_time applies to putTime
PutTimeDivisor == 10000000

\* modified_time(name): [raised, sec, usec, calls]; the timestamp is
\* putTime / 10000000 seconds, kept as whole seconds and microseconds
storage_modified_time(b, name, out) ==
    LET s == file_stat(b, name, default_silent, out)
        raised == IF s.raised # "" THEN s.raised ELSE SubscriptRaises(s.ret)
    IN  [raised |-> raised,
         sec    |-> IF raised # "" THEN 0 ELSE s.ret.putTime \div PutTimeDivisor,
         usec   |-> IF raised # "" THEN 0
                    ELSE (s.ret.putTime % PutTimeDivisor) \div 10,
         calls  |-> s.calls]

\* listdir: the prefix handed to bucket_lister
listdir_prefix(name) ==
    LET n == normalize_name(clean_name(name))
    IN  IF n # <<>> /\ ~EndsWithSlash(n) THEN n \o <<Slash>> ELSE n

\* listdir: base_parts = name.split("/")[:-1]
base_parts(prefix) ==
    LET ps == Split(prefix) IN SubSeq(ps, 1, Len(ps) - 1)

\* faulty variant: listdir without the slice that drops base_parts
item_parts_unsliced(key, prefix) == Split(key)

\* listdir: parts = item['key'].split("/")[len(base_parts):]
item_parts(key, prefix) == DropFirst(Split(key), Len(base_parts(prefix)))

\* listdir: whether an item is appended to files / added to dirs
IsFileItem(parts) == Len(parts) = 1
IsDirItem(parts)  == Len(parts) > 1

\* listdir: files, in the order of the items
RECURSIVE listdir_files(_, _)
listdir_files(items, prefix) ==
    IF items = <<>> THEN <<>>
    ELSE LET parts == item_parts(Head(items), prefix)
         IN  (IF IsFileItem(parts) THEN <<parts[1]>> ELSE <<>>)
             \o listdir_files(Tail(items), prefix)

\* listdir: dirs, a set
listdir_dirs(items, prefix) ==
    { item_parts(items[i], prefix)[1] :
        i \in { j \in DOMAIN items : IsDirItem(item_parts(items[j], prefix)) } }

----------------------------------------------------------------------------
(* State *)

NoHandle ==
    [st |-> "none", arg |-> <<>>, name |-> <<>>, mode |-> <<>>, file |-> <<>>,
     pos |-> 0, is_dirty |-> FALSE, is_read |-> FALSE, has_size |-> FALSE,
     size |-> 0, closed |-> FALSE]

NoObs ==
    [op |-> "init", h |-> 0, name |-> <<>>, raised |-> "", retName |-> <<>>,
     retBool |-> FALSE, retInt |-> 0, retUsec |-> 0, retData |-> <<>>,
     retText |-> <<>>, retDirs |-> {}, retFiles |-> <<>>, items |-> <<>>,
     listing |-> <<>>, again |-> FALSE, calls |-> <<>>]

\* the names a caller passes: plain ones and a stored name save returned
Names == BaseNames \cup { normalize_name(<<"a">>) }

\* the names whose mapping to keys and URLs is examined
PathNames == BaseNames \cup DirNames \cup { <<"/","/","a">> }

\* the names files are opened and saved under
FileNames == { <<"a">>, normalize_name(<<"a">>) }

Init ==
    /\ location \in Locations
    /\ filename_prefix \in Prefixes
    /\ bucket = EmptyBucket
    /\ handles = [h \in HandleIds |-> NoHandle]
    /\ last = NoObs

----------------------------------------------------------------------------
(* Operations of QiniuStorage *)

\* _save(name, content)
SaveOp(names, contents, cap) ==
    \E n \in names, c \in contents, out \in PutOutcomes, t \in PutTimes :
        LET name == normalize_name(clean_name(n))
            r    == put_file(bucket, prefix_name(name), c, out, t)
        IN  /\ Cardinality(DOMAIN r.bucket) <= cap
            /\ bucket' = r.bucket
            /\ last' = [NoObs EXCEPT !.op = "save", !.name = n,
                            !.raised = r.raised,
                            !.retName = IF r.raised = "" THEN name ELSE <<>>,
                            !.calls = r.calls]
            /\ UNCHANGED <<location, filename_prefix, handles>>

Save == SaveOp(Names, { <<>>, <<120>> }, MaxObjects)

SaveFile == SaveOp(FileNames, { <<>>, <<121>> }, MaxFileObjects)

\* delete(name)
Delete ==
    \E n \in Names :
        LET key == prefix_name(normalize_name(clean_name(n)))
        IN  \E out \in DeleteOutcomes(bucket, key) :
                /\ bucket' = ServiceDelete(bucket, key, out)
                /\ last' = [NoObs EXCEPT !.op = "delete", !.name = n,
                                !.raised = IF DeleteRaises(out)
                                           THEN "QiniuError" ELSE "",
                                !.retInt = out.status, !.retBool = out.none,
                                !.calls = <<Call("delete", key, <<>>, "")>>]
                /\ UNCHANGED <<location, filename_prefix, handles>>

\* exists(name)
Exists ==
    \E n \in Names :
        \E out \in StatOutcomes(bucket,
                                prefix_name(normalize_name(clean_name(n)))) :
            LET s == file_stat(bucket, n, exists_silent, out)
            IN  /\ last' = [NoObs EXCEPT !.op = "exists", !.name = n,
                                !.raised = s.raised,
                                !.retBool = (s.raised = "" /\ ~s.ret.none),
                                !.calls = s.calls]
                /\ UNCHANGED <<location, filename_prefix, bucket, handles>>

\* size(name)
Size ==
    \E n \in Names :
        \E out \in StatOutcomes(bucket,
                                prefix_name(normalize_name(clean_name(n)))) :
            LET r == storage_size(bucket, n, out)
            IN  /\ last' = [NoObs EXCEPT !.op = "size", !.name = n,
                                !.raised = r.raised, !.retInt = r.value,
                                !.calls = r.calls]
                /\ UNCHANGED <<location, filename_prefix, bucket, handles>>

\* modified_time(name)
ModifiedTime ==
    \E n \in Names :
        \E out \in StatOutcomes(bucket,
                                prefix_name(normalize_name(clean_name(n)))) :
            LET r == storage_modified_time(bucket, n, out)
            IN  /\ last' = [NoObs EXCEPT !.op = "modified_time", !.name = n,
                                !.raised = r.raised, !.retInt = r.sec,
                                !.retUsec = r.usec, !.calls = r.calls]
                /\ UNCHANGED <<location, filename_prefix, bucket, handles>>

\* listdir(name)
Listdir ==
    \E n \in DirNames :
        LET prefix == listdir_prefix(n)
        IN  \E listing \in Listings(bucket, prefix) :
                LET items == bucket_lister(listing, 0)
                IN  /\ last' = [NoObs EXCEPT !.op = "listdir", !.name = n,
                                    !.retDirs = listdir_dirs(items, prefix),
                                    !.retFiles = listdir_files(items, prefix),
                                    !.items = items, !.listing = listing,
                                    !.calls = lister_calls(listing, 0, prefix)]
                    /\ UNCHANGED <<location, filename_prefix, bucket, handles>>

----------------------------------------------------------------------------
(* QiniuFile *)

\* __init__: self._name
qf_name(name) == LStrip(DropFirst(name, Len(location)))

\* BytesIO.write: data replaces the bytes at the cursor and extends the buffer
BufWrite(file, pos, data) ==
    SubSeq(file, 1, pos) \o data \o DropFirst(file, pos + Len(data))

\* BytesIO.read(n): the bytes from the cursor, all of them for None (-1)
BufRead(file, pos, num) ==
    LET rest == DropFirst(file, pos)
    IN  IF num < 0 \/ num >= Len(rest) THEN rest ELSE SubSeq(rest, 1, num)

\* faulty variant: write without the mode test
WriteRefusedNever(mode) == FALSE

\* write: the mode test
WriteRefused(mode) == ~HasChar(mode, "w")

\* read: whether the data is returned as bytes
IsBinary(mode) == HasChar(mode, "b")

\* faulty variant: size reading the buffer of written handles only
size_from_buffer_dirty(f) == f.is_dirty

\* size: whether the length is taken from the buffer
size_from_buffer(f) == f.is_dirty \/ f.is_read

\* faulty variant: size without the hasattr test
has_cached_size_never(f) == FALSE

\* size: hasattr(self, '_size')
has_cached_size(f) == f.has_size

\* faulty variant: read fetching on every call
needs_fetch_always(f) == TRUE

\* read: whether the content is fetched first
needs_fetch(f) == ~f.is_read

\* faulty variant: close never uploading
CloseUploadsNever(f) == FALSE

\* close: whether the buffer is uploaded
CloseUploads(f) == f.is_dirty

\* faulty variant: close uploading what follows the cursor, file.read()
close_data_from_cursor(f) == DropFirst(f.file, f.pos)

\* close: the bytes uploaded, file.getvalue()
close_data(f) == f.file

\* close: the key the buffer is uploaded to
close_key(f) == f.name

\* _open(name, mode)
OpenOp(h, names, modes) ==
    \E n \in names, mode \in modes :
        /\ handles[h].st = "none" \/ handles[h].closed
        /\ handles' = [handles EXCEPT ![h] =
                          [NoHandle EXCEPT !.st = "open", !.arg = n,
                                           !.name = qf_name(n), !.mode = mode]]
        /\ last' = [NoObs EXCEPT !.op = "open", !.h = h, !.name = n]
        /\ UNCHANGED <<location, filename_prefix, bucket>>

Open(h) == OpenOp(h, FileNames, Modes)

\* QiniuFile.size
HandleSize(h) ==
    LET f == handles[h]
    IN  /\ f.st = "open"
        /\ IF size_from_buffer(f)
           THEN IF f.closed
                THEN /\ last' = [NoObs EXCEPT !.op = "hsize", !.h = h,
                                              !.raised = "ValueError"]
                     /\ UNCHANGED handles
                ELSE /\ handles' = [handles EXCEPT ![h].has_size = TRUE,
                                                   ![h].size = Len(f.file)]
                     /\ last' = [NoObs EXCEPT !.op = "hsize", !.h = h,
                                              !.retInt = Len(f.file)]
           ELSE IF has_cached_size(f)
                THEN /\ last' = [NoObs EXCEPT !.op = "hsize", !.h = h,
                                              !.retInt = f.size]
                     /\ UNCHANGED handles
                ELSE \E out \in StatOutcomes(bucket,
                         prefix_name(normalize_name(clean_name(f.name)))) :
                        LET r == storage_size(bucket, f.name, out)
                        IN  /\ handles' = IF r.raised # "" THEN handles
                                  ELSE [handles EXCEPT ![h].has_size = TRUE,
                                                       ![h].size = r.value]
                            /\ last' = [NoObs EXCEPT !.op = "hsize", !.h = h,
                                           !.raised = r.raised,
                                           !.retInt = r.value,
                                           !.calls = r.calls]
        /\ UNCHANGED <<location, filename_prefix, bucket>>

\* QiniuFile.read(num_bytes); num = -1 stands for None
Read(h) ==
    \E num \in -1..MaxBuf, out \in GetOutcomes :
        LET f == handles[h]
            r == storage_read(bucket, f.name, out)
            fetch == needs_fetch(f)
            g == IF fetch /\ r.raised = ""
                 THEN [f EXCEPT !.file = r.content, !.pos = 0,
                                !.is_read = TRUE, !.closed = FALSE]
                 ELSE f
            data == BufRead(g.file, g.pos, num)
            raised == IF fetch /\ r.raised # "" THEN r.raised
                      ELSE IF g.closed THEN "ValueError" ELSE ""
        IN  /\ f.st = "open"
            /\ fetch \/ out = "ok"
            /\ handles' = [handles EXCEPT ![h] =
                              IF raised # "" THEN g
                              ELSE [g EXCEPT !.pos = g.pos + Len(data)]]
            /\ last' = [NoObs EXCEPT !.op = "read", !.h = h, !.retInt = num,
                           !.raised = raised,
                           !.retData = IF raised = "" /\ IsBinary(f.mode)
                                       THEN data ELSE <<>>,
                           !.retText = IF raised = "" /\ ~IsBinary(f.mode)
                                       THEN force_text(data) ELSE <<>>,
                           !.calls = IF fetch THEN r.calls ELSE <<>>]
            /\ UNCHANGED <<location, filename_prefix, bucket>>

\* the effect of write(content) once content is bytes
WriteBytes(h, d) ==
    LET f == handles[h]
        raised == IF WriteRefused(f.mode) THEN "AttributeError"
                  ELSE IF f.closed THEN "ValueError" ELSE ""
    IN  /\ f.st = "open"
        /\ Len(BufWrite(f.file, f.pos, d)) <= MaxBuf
        /\ handles' = IF raised # "" THEN handles
                      ELSE [handles EXCEPT ![h].file = BufWrite(f.file, f.pos, d),
                                           ![h].pos = f.pos + Len(d),
                                           ![h].is_dirty = TRUE,
                                           ![h].is_read = TRUE]
        /\ last' = [NoObs EXCEPT !.op = "write", !.h = h, !.raised = raised]
        /\ UNCHANGED <<location, filename_prefix, bucket>>

\* QiniuFile.write(content): content is bytes or text
Write(h) ==
    \/ \E d \in Contents : WriteBytes(h, d)
    \/ \E t \in Texts : WriteBytes(h, force_bytes(t))

\* File.seek(pos), handed to the buffer; positions within the buffer
Seek(h) ==
    \E p \in 0..MaxBuf :
        LET f == handles[h]
        IN  /\ f.st = "open"
            /\ p <= Len(f.file)
            /\ handles' = IF f.closed THEN handles
                          ELSE [handles EXCEPT ![h].pos = p]
            /\ last' = [NoObs EXCEPT !.op = "seek", !.h = h,
                           !.raised = IF f.closed THEN "ValueError" ELSE ""]
            /\ UNCHANGED <<location, filename_prefix, bucket>>

\* QiniuFile.close
CloseOp(h, cap) ==
    LET f == handles[h]
    IN  /\ f.st = "open"
        /\ IF CloseUploads(f)
           THEN IF f.closed
                THEN /\ last' = [NoObs EXCEPT !.op = "close", !.h = h,
                                              !.raised = "ValueError"]
                     /\ UNCHANGED <<bucket, handles>>
                ELSE \E out \in PutOutcomes, t \in PutTimes :
                        LET r == put_file(bucket, close_key(f), close_data(f),
                                          out, t)
                        IN  /\ Cardinality(DOMAIN r.bucket) <= cap
                            /\ bucket' = r.bucket
                            /\ handles' = IF r.raised # "" THEN handles
                                  ELSE [handles EXCEPT ![h].closed = TRUE,
                                            ![h].file = <<>>, ![h].pos = 0]
                            /\ last' = [NoObs EXCEPT !.op = "close", !.h = h,
                                           !.raised = r.raised,
                                           !.calls = r.calls]
           ELSE /\ handles' = [handles EXCEPT ![h].closed = TRUE,
                                   ![h].file = <<>>, ![h].pos = 0]
                /\ last' = [NoObs EXCEPT !.op = "close", !.h = h]
                /\ UNCHANGED bucket
        /\ UNCHANGED <<location, filename_prefix>>

Close(h) == CloseOp(h, MaxFileObjects)

FileNext ==
    \E h \in HandleIds :
        Open(h) \/ HandleSize(h) \/ Read(h) \/ Write(h) \/ Seek(h) \/ Close(h)

----------------------------------------------------------------------------
(* Specifications *)

\* url(name)
Url ==
    \E n \in PathNames :
        /\ last' = [NoObs EXCEPT !.op = "url", !.name = n, !.retName = url(n)]
        /\ UNCHANGED <<location, filename_prefix, bucket, handles>>

\* _normalize_name(name), of a caller's name or (again) of the name the
\* previous call returned
NormalizeName ==
    \/ \E n \in PathNames :
          /\ last' = [NoObs EXCEPT !.op = "normalize", !.name = n,
                                   !.retName = normalize_name(n)]
          /\ UNCHANGED <<location, filename_prefix, bucket, handles>>
    \/ /\ last.op = "normalize" /\ ~last.again
       /\ last' = [NoObs EXCEPT !.op = "normalize", !.name = last.retName,
                                !.again = TRUE,
                                !.retName = normalize_name(last.retName)]
       /\ UNCHANGED <<location, filename_prefix, bucket, handles>>

\* the mapping of names to keys and URLs
NamesNext == Url \/ NormalizeName

SpecNames == Init /\ [][NamesNext]_vars

\* the adapter's operations on names
\* two handles opened for writing on the name save returns for "a"
SharedNames == { normalize_name(<<"a">>) }
SharedModes == { <<"w","b">> }

InitShared ==
    /\ location \in Locations
    /\ filename_prefix \in Prefixes
    /\ bucket = EmptyBucket
    /\ handles = [h \in SharedHandleIds |-> NoHandle]
    /\ last = NoObs

SharedNext ==
    \E h \in SharedHandleIds :
        \/ OpenOp(h, SharedNames, SharedModes)
        \/ Write(h)
        \/ CloseOp(h, MaxSharedObjects)

SpecShared == InitShared /\ [][SharedNext]_vars

StorageNext == Save \/ Delete \/ Exists \/ Size \/ ModifiedTime \/ Listdir

SpecStorage == Init /\ [][StorageNext]_vars

\* file handles, with the operations that change what they see
Next == SaveFile \/ FileNext

Spec == Init /\ [][Next]_vars

----------------------------------------------------------------------------
(* Claims *)

\* the key save(n, ...) uploads to
SaveKey(n) == filename_prefix \o normalize_name(n)

\* the handle the last call was made on
LastHandle == handles[last.h]

\* C1: after save(n, c), a binary open(n).read() fetches from the key save
\* uploaded to and returns the bytes stored there.
C1_SaveOpenRead ==
    (/\ last.op = "read" /\ last.calls # <<>> /\ last.raised = ""
     /\ last.retInt = -1 /\ IsBinary(LastHandle.mode)
     /\ SaveKey(LastHandle.arg) \in DOMAIN bucket)
    => /\ last.calls[1].key = SaveKey(LastHandle.arg)
       /\ last.retData = bucket[SaveKey(LastHandle.arg)].data

\* C2: close() of a written handle uploads to the handle's fully-qualified
\* key, filename prefix + root + "/" + name, the key its read() fetches from.
C2_CloseKey ==
    (last.op = "close" /\ last.calls # <<>> /\ last.raised = "")
    => last.calls[1].key = prefix_name(normalize_name(LastHandle.name))

\* C3: every key or key prefix sent to the remote service begins with the
\* filename prefix followed by the normalized root.
C3_Namespace ==
    \A i \in DOMAIN last.calls :
        StartsWith(last.calls[i].key,
                   filename_prefix \o normalize_name(<<>>))

\* C4: write on a handle whose mode is not write-capable raises the
\* invalid-operation error and changes neither the handle nor the bucket, and
\* close on such a handle uploads nothing.
C4_WriteReadOnly ==
    /\ [][\A h \in HandleIds :
            (last'.op = "write" /\ last'.h = h /\ ~HasChar(handles[h].mode, "w"))
            => /\ last'.raised = "AttributeError"
               /\ handles'[h] = handles[h]
               /\ bucket' = bucket]_vars
    /\ [](\A h \in HandleIds :
            ~HasChar(handles[h].mode, "w")
            => /\ ~handles[h].is_dirty
               /\ (last.op = "close" /\ last.h = h) => last.calls = <<>>)

\* C4 witness: a handle that was read is refused a write and keeps its buffer
C4_Witness ==
    /\ last.op = "write" /\ last.raised = "AttributeError"
    /\ LastHandle.is_read /\ LastHandle.file # <<>> /\ LastHandle.pos > 0

\* C5: exists never raises, answers whether the stat gave a result, and
\* leaves the bucket as it was.
C5_ExistsNeverRaises ==
    /\ [](last.op = "exists"
          => /\ last.raised = ""
             /\ last.retBool = (last.calls[1].res = "ok"))
    /\ [][last'.op = "exists" => bucket' = bucket]_vars

\* C5 witness: exists answers False for a name whose key is not in the bucket
C5_Witness ==
    /\ last.op = "exists" /\ ~last.retBool /\ last.raised = ""
    /\ SaveKey(last.name) \notin DOMAIN bucket /\ bucket # EmptyBucket

\* C6: size and modified_time raise the operation-failed error whenever the
\* stat of the name's key gives no result.
C6_AccessorsRaise ==
    (last.op \in {"size", "modified_time"} /\ last.calls[1].res = "none")
    => /\ last.raised = "QiniuError"
       /\ last.calls[1].key = SaveKey(last.name)

\* C6 witness: size of a name whose key is not in the bucket raises
C6_Witness ==
    /\ last.op = "size" /\ last.raised = "QiniuError"
    /\ SaveKey(last.name) \notin DOMAIN bucket /\ bucket # EmptyBucket

\* C7: delete raises the operation-failed error exactly when the service
\* gives no result or reports status 612; exists on a key that is not present
\* answers False without raising.
C7_DeleteRaises ==
    /\ last.op = "delete"
       => (last.raised = "QiniuError") = (last.retBool \/ last.retInt = 612)
    /\ last.op = "delete" => last.raised \in {"", "QiniuError"}
    /\ (last.op = "exists" /\ SaveKey(last.name) \notin DOMAIN bucket)
       => (last.raised = "" /\ ~last.retBool)

\* C7 witness: the service answers a delete with a result and status 612
C7_Witness ==
    /\ last.op = "delete" /\ ~last.retBool /\ last.retInt = 612
    /\ last.raised = "QiniuError"

\* C8: an upload by save or by close raises the operation-failed error
\* whenever the service gives no result ("none") or reports another stored
\* key than the requested one ("mangled"), and save then returns no name.
C8_UploadFails ==
    (/\ last.op \in {"save", "close"} /\ last.calls # <<>>
     /\ last.calls[1].res \in {"none", "mangled"})
    => /\ last.raised = "QiniuError"
       /\ last.op = "save" => last.retName = <<>>

\* C8 witness: a close whose upload the service stored under another key
C8_Witness ==
    /\ last.op = "close" /\ last.calls # <<>> /\ last.calls[1].res = "mangled"
    /\ last.raised = "QiniuError" /\ Mangled(last.calls[1].key) \in DOMAIN bucket

\* C9: the size of a handle from open(n), never read or written, is the fsize
\* the stat of the key save(n, ...) wrote reports, and no content is fetched.
C9_FreshSize ==
    (/\ last.op = "hsize" /\ ~LastHandle.is_read /\ ~LastHandle.is_dirty
     /\ last.calls # <<>>
     /\ SaveKey(LastHandle.arg) \in DOMAIN bucket)
    => /\ \A i \in DOMAIN last.calls : last.calls[i].api = "stat"
       /\ last.calls[1].key = SaveKey(LastHandle.arg)
       /\ last.calls[1].res = "ok"
          => /\ last.raised = ""
             /\ last.retInt = Len(bucket[SaveKey(LastHandle.arg)].data)

\* the segments of a key that remain after the listing prefix
Remaining(key, prefix) == Split(DropFirst(key, Len(prefix)))

\* the last segments of the keys that have one remaining segment, in order
RECURSIVE FilesOf(_, _)
FilesOf(items, prefix) ==
    IF items = <<>> THEN <<>>
    ELSE LET rem == Remaining(items[Len(items)], prefix)
         IN  FilesOf(SubSeq(items, 1, Len(items) - 1), prefix)
             \o (IF Len(rem) = 1 THEN <<rem[1]>> ELSE <<>>)

\* C10: listdir puts the single remaining segment of a key in the file list,
\* in listing order, and the first of several remaining segments in the
\* directory set.
C10_ListdirPartition ==
    last.op = "listdir"
    => LET prefix == last.calls[1].key
           items  == last.items
       IN  /\ last.retFiles = FilesOf(items, prefix)
           /\ last.retDirs =
                  { Remaining(items[i], prefix)[1] :
                      i \in { j \in DOMAIN items :
                                Len(Remaining(items[j], prefix)) > 1 } }

\* C10 witness: keys a, s/b, s/c under the empty prefix give dirs {s}, files [a]
C10_Witness ==
    /\ last.op = "listdir" /\ last.calls[1].key = <<>>
    /\ { last.items[i] : i \in DOMAIN last.items }
          = { <<"a">>, <<"s","/","b">>, <<"s","/","c">> }
    /\ last.retDirs = { <<"s">> }
    /\ last.retFiles = << <<"a">> >>

\* the name after the root: a name without its leading slashes
Rest(n) == LStrip(n)

\* C11 as stated: url(n) is the domain joined with
\* prefix + root + "/" + n without its leading slashes.
C11_UrlAsStated ==
    last.op = "url"
    => last.retName = UrlJoin(bucket_domain,
                        filename_prefix \o location \o <<Slash>> \o Rest(last.name))

\* C11, amended: url(n) is the domain joined with prefix + root + "/" + n
\* without its leading slashes for a non-blank root, and with prefix + n
\* without its leading slashes for the blank root.
C11_Url ==
    last.op = "url"
    => last.retName =
         bucket_domain \o filename_prefix
            \o (IF location = <<>> THEN <<>> ELSE location \o <<Slash>>)
            \o Rest(last.name)

\* C11 witness: the url of a name with a leading slash under the blank root
\* and a filename prefix
C11_Witness ==
    /\ last.op = "url" /\ location = <<>> /\ filename_prefix # <<>>
    /\ last.name = <<"/","a">>
    /\ last.retName = bucket_domain \o filename_prefix \o <<"a">>

\* C12: normalizing an already-normalized name yields the same name, under
\* every root; the result has no leading slash and one "/" between the root
\* and the rest.
C12_Idempotent ==
    last.op = "normalize"
    => /\ last.again => last.retName = last.name
       /\ last.retName = <<>> \/ Head(last.retName) # Slash
       /\ location # <<>>
          => /\ StartsWith(last.retName, location \o <<Slash>>)
             /\ LET rest == DropFirst(last.retName, Len(location) + 1)
                IN  rest = <<>> \/ Head(rest) # Slash

\* the pages a listing of n entries takes
PagesOf(n) == IF n = 0 THEN 1 ELSE (n + PageLimit - 1) \div PageLimit

\* C14: listdir consumes every entry of every page of the listing once, in
\* page order, and stops at the page the service marks as the last: one list
\* call per page, none after the last.
C14_ListdirDrains ==
    last.op = "listdir"
    => /\ last.items = last.listing
       /\ { last.items[i] : i \in 1..Len(last.items) }
             = { k \in DOMAIN bucket : StartsWith(k, last.calls[1].key) }
       /\ Len(last.items) = Cardinality({ last.items[i] : i \in 1..Len(last.items) })
       /\ Len(last.calls) = PagesOf(Len(last.listing))
       /\ \A i \in 1..Len(last.calls) :
            /\ last.calls[i].api = "list"
            /\ last.calls[i].res = "eof" <=> i = Len(last.calls)

\* C14 witness: a listing of three pages drained into three entries
C14_Witness ==
    /\ last.op = "listdir" /\ Len(last.calls) = 3 /\ Len(last.items) = 3
    /\ last.calls[2].res = "more"

\* C19: the name save returned addresses the saved object: while the object
\* save(n) uploaded is there and the service answers the stat truthfully,
\* exists of the returned name is True, and its url is the url of n.
C19_StoredName ==
    \A n \in BaseNames :
        ( /\ last.op = "exists" /\ last.name = normalize_name(n)
          /\ SaveKey(n) \in DOMAIN bucket
          /\ last.calls[1].res = "none" => last.calls[1].key \notin DOMAIN bucket )
        => /\ last.retBool
           /\ url(last.name) = url(n)

\* C20: while the object saved as d/f is there, listdir(d) has f among its
\* files and listdir of d's parent has d among its directories, whatever the
\* filename prefix.
C20_SavedListable ==
    \A f \in { <<"b">>, <<"c">> } :
        (last.op = "listdir" /\ SaveKey(<<"s", Slash>> \o f) \in DOMAIN bucket)
        => /\ last.name = <<"s">>
              => \E i \in 1..Len(last.retFiles) : last.retFiles[i] = f
           /\ last.name = <<>> => <<"s">> \in last.retDirs

\* the handle has been neither read nor written
Fresh(f) == ~f.is_read /\ ~f.is_dirty

\* C15: opening a handle issues no remote call; a read fetches the content
\* exactly when the handle has been neither read nor written, no other
\* operation fetches, and once a fetch has returned content no later read of
\* the handle fetches again: it is served from the buffer.
C15_LazyFetch ==
    /\ [][\A h \in HandleIds :
            /\ (last'.op = "open" /\ last'.h = h)
               => /\ last'.calls = <<>> /\ bucket' = bucket
                  /\ Fresh(handles'[h]) /\ handles'[h].file = <<>>
            /\ (last'.op = "read" /\ last'.h = h)
               => /\ last'.calls # <<>> <=> Fresh(handles[h])
                  /\ Len(last'.calls) <= 1
                  /\ (last'.calls # <<>> /\ last'.raised = "")
                     => handles'[h].is_read
                  /\ (last'.calls = <<>> /\ last'.raised = "")
                     => LET data == BufRead(handles[h].file, handles[h].pos,
                                            last'.retInt)
                        IN  /\ handles'[h].file = handles[h].file
                            /\ IF IsBinary(handles[h].mode)
                               THEN last'.retData = data
                               ELSE last'.retText = force_text(data)
            /\ (~Fresh(handles[h]) /\ last'.op # "open")
               => ~Fresh(handles'[h])
       ]_vars
    /\ [](\A i \in DOMAIN last.calls :
            last.calls[i].api = "get" => last.op = "read")

\* C15 witness: a later read of a fetched, unwritten handle, served from the
\* buffer without a remote call
C15_Witness ==
    /\ last.op = "read" /\ last.calls = <<>> /\ last.raised = ""
    /\ LastHandle.is_read /\ ~LastHandle.is_dirty
    /\ last.retData # <<>> \/ last.retText # <<>>

\* C16: a write issues no upload; close of a handle not yet closed issues one
\* upload carrying the whole buffer, wherever the cursor is, exactly when the
\* handle is dirty, and none otherwise; a handle is dirty exactly when a write
\* on it succeeded.
C16_FlushOnClose ==
    [][\A h \in HandleIds :
         /\ (last'.op = "write" /\ last'.h = h)
            => /\ last'.calls = <<>> /\ bucket' = bucket
               /\ last'.raised = "" => handles'[h].is_dirty
         /\ (~handles[h].is_dirty /\ handles'[h].is_dirty)
            => (last'.op = "write" /\ last'.h = h /\ last'.raised = "")
         /\ (last'.op = "close" /\ last'.h = h /\ ~handles[h].closed)
            => IF handles[h].is_dirty
               THEN /\ Len(last'.calls) = 1
                    /\ last'.calls[1].api = "put"
                    /\ last'.calls[1].data = handles[h].file
               ELSE last'.calls = <<>> /\ bucket' = bucket
      ]_vars

\* C16 witness: close has issued the upload of the whole buffer of a handle
\* whose cursor is at the start of it
C16_Witness ==
    /\ last.op = "close" /\ Len(last.calls) = 1
    /\ LastHandle.is_dirty /\ LastHandle.pos = 0 /\ Len(LastHandle.file) = 1
    /\ last.calls[1].data = LastHandle.file

\* C17: on a handle that has been read or written (and not closed), size
\* returns the length of the buffer, issues no remote call, and leaves the
\* cursor, the buffer, both flags and the bucket as they were.
C17_SizeFrame ==
    [][\A h \in HandleIds :
         ( /\ last'.op = "hsize" /\ last'.h = h
           /\ ~Fresh(handles[h]) /\ ~handles[h].closed )
         => /\ last'.raised = ""
            /\ last'.retInt = Len(handles[h].file)
            /\ last'.calls = <<>> /\ bucket' = bucket
            /\ handles'[h].pos = handles[h].pos
            /\ handles'[h].file = handles[h].file
            /\ handles'[h].is_dirty = handles[h].is_dirty
            /\ handles'[h].is_read = handles[h].is_read
      ]_vars

\* C17 witness: the size of a read, unwritten handle whose cursor is inside
\* a non-empty buffer
C17_Witness ==
    /\ last.op = "hsize" /\ last.raised = "" /\ last.calls = <<>>
    /\ LastHandle.is_read /\ ~LastHandle.is_dirty
    /\ last.retInt = 1 /\ LastHandle.pos = 0

\* the key a handle's size is asked of the service under
SizeKey(f) == prefix_name(normalize_name(f.name))

\* C18: on a handle neither read nor written, a size query without a cached
\* value issues one stat and, when the stat succeeds, caches what it returned;
\* a size query with a cached value returns it without a remote call; the
\* cached value stays while the handle is neither read nor written, whatever
\* becomes of the remote object.
C18_SizeCached ==
    [][\A h \in HandleIds :
         /\ (last'.op = "hsize" /\ last'.h = h /\ Fresh(handles[h]))
            => IF handles[h].has_size
               THEN /\ last'.calls = <<>> /\ last'.raised = ""
                    /\ last'.retInt = handles[h].size
                    /\ handles'[h] = handles[h]
               ELSE /\ Len(last'.calls) = 1 /\ last'.calls[1].api = "stat"
                    /\ last'.raised = ""
                       => /\ handles'[h].has_size
                          /\ handles'[h].size = last'.retInt
                          /\ last'.retInt
                               = Len(bucket[last'.calls[1].key].data)
         /\ (handles[h].has_size /\ Fresh(handles[h]) /\ Fresh(handles'[h])
               /\ last'.op # "open")
            => /\ handles'[h].has_size
               /\ handles'[h].size = handles[h].size
      ]_vars

\* C18 witness: a size answered from the cache after the remote object has
\* changed its length
C18_Witness ==
    /\ last.op = "hsize" /\ last.calls = <<>> /\ last.raised = ""
    /\ Fresh(LastHandle) /\ LastHandle.has_size
    /\ SizeKey(LastHandle) \in DOMAIN bucket
    /\ Len(bucket[SizeKey(LastHandle)].data) # last.retInt

\* the other of the two handles
Other(h) == CHOOSE g \in SharedHandleIds : g # h

\* C13: with two written handles on one name, the close of either, whatever
\* the other has done, is never refused: it issues its upload, and when the
\* service accepts it the content of the key is the whole buffer of the
\* closing handle and the other handle is untouched; so once both are closed
\* the key holds what the last close uploaded.
C13_LastCloseWins ==
    /\ [][\A h \in SharedHandleIds :
            ( /\ last'.op = "close" /\ last'.h = h
              /\ handles[h].is_dirty /\ ~handles[h].closed
              /\ handles[Other(h)].arg = handles[h].arg
              /\ handles[Other(h)].is_dirty )
            => /\ Len(last'.calls) = 1
               /\ last'.calls[1].key = close_key(handles[Other(h)])
               /\ last'.calls[1].data = handles[h].file
               /\ handles'[Other(h)] = handles[Other(h)]
               /\ last'.calls[1].res = "ok"
                  => /\ last'.raised = "" /\ handles'[h].closed
                     /\ bucket'[last'.calls[1].key].data = handles[h].file
       ]_vars
    /\ [](\A h \in SharedHandleIds :
            (handles[h].st = "open" /\ handles[h].is_dirty /\ ~handles[h].closed)
            => ENABLED CloseOp(h, MaxSharedObjects))
    /\ []( ( /\ last.op = "close" /\ last.raised = "" /\ last.calls # <<>>
             /\ \A h \in SharedHandleIds :
                  handles[h].is_dirty /\ handles[h].closed )
           => bucket[last.calls[1].key].data = last.calls[1].data )

\* C13 witness: both written handles are closed, the second close replaced
\* the non-empty content the first had uploaded
C13_Witness ==
    /\ \A h \in SharedHandleIds : handles[h].is_dirty /\ handles[h].closed
    /\ handles[1].arg = handles[2].arg
    /\ last.op = "close" /\ last.raised = "" /\ last.calls # <<>>
    /\ bucket[last.calls[1].key].data = <<121>>
    /\ bucket[last.calls[1].key].putTime = 25000010

====
